---- MODULE Spec2Model ----
(***************************************************************************)
(* Model of the validation package: the registry of validation functions   *)
(* (util.go: funcs, unFuncs, init, AddCustomFunc, Funcs.Call), the rule    *)
(* compiler (util.go: getValidFuncs, getRegFuncs, parseFunc, numIn, trim,  *)
(* parseParam) and the validation context (validation.go: Validation,      *)
(* Error, Result, apply, setError, Valid).                                 *)
(*                                                                         *)
(* Go strings are sequences of one-character strings, so that Index,       *)
(* LastIndex, Split and TrimSpace are computed as the code computes them.  *)
(* Indices are 0-based as in Go; -1 is "not found".                        *)
(***************************************************************************)
EXTENDS Integers, Sequences, FiniteSets, TLC

VARIABLES funcs, v, results, manual, obj, op, arg, ret, trace

vars == <<funcs, v, results, manual, obj, op, arg, ret, trace>>

(***************************************************************************)
(* Bounds of the model.                                                    *)
(***************************************************************************)
MaxFields == 2

MaxClauses == 3

MaxErrors == 2

(***************************************************************************)
(* String literals of the source.                                          *)
(***************************************************************************)
sClear == <<"C","l","e","a","r">>
sHasErrors == <<"H","a","s","E","r","r","o","r","s">>
sErrorMap == <<"E","r","r","o","r","M","a","p">>
sError == <<"E","r","r","o","r">>
sRequired == <<"R","e","q","u","i","r","e","d">>
sMin == <<"M","i","n">>
sMax == <<"M","a","x">>
sRange == <<"R","a","n","g","e">>
sMinSize == <<"M","i","n","S","i","z","e">>
sMaxSize == <<"M","a","x","S","i","z","e">>
sLength == <<"L","e","n","g","t","h">>
sAlpha == <<"A","l","p","h","a">>
sNumeric == <<"N","u","m","e","r","i","c">>
sAlphaNumeric == <<"A","l","p","h","a","N","u","m","e","r","i","c">>
sMatch == <<"M","a","t","c","h">>
sNoMatch == <<"N","o","M","a","t","c","h">>
sAlphaDash == <<"A","l","p","h","a","D","a","s","h">>
sEmail == <<"E","m","a","i","l">>
sIP == <<"I","P">>
sBase64 == <<"B","a","s","e","6","4">>
sMobile == <<"M","o","b","i","l","e">>
sTel == <<"T","e","l">>
sPhone == <<"P","h","o","n","e">>
sZipCode == <<"Z","i","p","C","o","d","e">>
sSetError == <<"S","e","t","E","r","r","o","r">>
sValid == <<"V","a","l","i","d">>
sapply == <<"a","p","p","l","y">>
sCheck == <<"C","h","e","c","k">>

\* "Match(/" and "/)" of getRegFuncs
sMatchOpen == <<"M","a","t","c","h","(","/">>

sMatchClose == <<"/",")">>

(***************************************************************************)
(* The Go library functions the compiler calls.                            *)
(***************************************************************************)
\* s[a:b]
Slice(s, a, b) == SubSeq(s, a + 1, b)

HasAt(s, sub, i) ==
    /\ i + Len(sub) <= Len(s)
    /\ SubSeq(s, i + 1, i + Len(sub)) = sub

\* the least and the greatest element of a set of integers, or d for the empty set
Least(S, d) == IF S = {} THEN d ELSE CHOOSE i \in S : \A j \in S : i <= j

Greatest(S, d) == IF S = {} THEN d ELSE CHOOSE i \in S : \A j \in S : i >= j

\* strings.Index
Index(s, sub) == Least({i \in 0..(Len(s) - Len(sub)) : HasAt(s, sub, i)}, -1)

\* strings.LastIndex
LastIndex(s, sub) == Greatest({i \in 0..(Len(s) - Len(sub)) : HasAt(s, sub, i)}, -1)

\* strings.TrimSpace
TrimSpace(s) ==
    SubSeq(s, Least({i \in 1..Len(s) : s[i] # " "}, 1),
              Greatest({i \in 1..Len(s) : s[i] # " "}, 0))

RECURSIVE Split(_, _)
SplitAt(s, sep, i) ==
    IF i = -1 THEN <<s>>
    ELSE <<Slice(s, 0, i)>> \o Split(Slice(s, i + 1, Len(s)), sep)

\* strings.Split, for a one-character separator
Split(s, sep) == SplitAt(s, sep, Index(s, <<sep>>))

Digits == <<"0","1","2","3","4","5","6","7","8","9">>

DigitVal(c) == (CHOOSE d \in 1..10 : Digits[d] = c) - 1

RECURSIVE DecVal(_)
DecVal(s) ==
    IF s = <<>> THEN 0
    ELSE 10 * DecVal(SubSeq(s, 1, Len(s) - 1)) + DigitVal(s[Len(s)])

IsDigits(s) == s # <<>> /\ \A i \in 1..Len(s) : \E d \in 1..10 : Digits[d] = s[i]

\* strconv.Atoi: an optional sign and decimal digits
Atoi(s) ==
    IF s # <<>> /\ s[1] \in {"-", "+"}
    THEN IF ~IsDigits(Tail(s)) THEN [ok |-> FALSE, i |-> 0]
         ELSE [ok |-> TRUE, i |-> IF s[1] = "-" THEN 0 - DecVal(Tail(s)) ELSE DecVal(Tail(s))]
    ELSE IF ~IsDigits(s) THEN [ok |-> FALSE, i |-> 0]
         ELSE [ok |-> TRUE, i |-> DecVal(s)]

RECURSIVE ParenDepth(_, _)
\* the nesting depth after reading s from depth d; -1 once a ")" has no "("
ParenDepth(s, d) ==
    IF d < 0 \/ s = <<>> THEN d
    ELSE ParenDepth(Tail(s), IF s[1] = "(" THEN d + 1
                             ELSE IF s[1] = ")" THEN d - 1 ELSE d)

\* regexp.Compile on patterns of literal characters and groups: the pattern
\* compiles iff its parentheses balance; the *Regexp keeps the pattern text.
regexpCompile(s) == [ok |-> ParenDepth(s, 0) = 0, re |-> s]

(***************************************************************************)
(* Values: the interface{} values passed as parameters and field values.  *)
(***************************************************************************)
IntV(i) == [kind |-> "int", i |-> i, s |-> <<>>]

StrV(s) == [kind |-> "string", i |-> 0, s |-> s]

RegV(s) == [kind |-> "regexp", i |-> 0, s |-> s]

(***************************************************************************)
(* Registry (util.go).                                                     *)
(***************************************************************************)
\* The exported methods of *Validation with their parameter types, receiver
\* first, as reflect.TypeOf(v).Method(i) reports them.
Sig0 == <<"*Validation", "interface", "string", "string">>

Sig1int == <<"*Validation", "interface", "int", "string", "string">>

Sig2int == <<"*Validation", "interface", "int", "int", "string", "string">>

SigReg == <<"*Validation", "interface", "*regexp.Regexp", "string", "string">>

Method(name, in) == [fn |-> name, In |-> in]

Methods ==
    (sClear :> Method(sClear, <<"*Validation">>)) @@
    (sHasErrors :> Method(sHasErrors, <<"*Validation">>)) @@
    (sErrorMap :> Method(sErrorMap, <<"*Validation">>)) @@
    (sError :> Method(sError, <<"*Validation", "string", "slice">>)) @@
    (sRequired :> Method(sRequired, Sig0)) @@
    (sMin :> Method(sMin, Sig1int)) @@
    (sMax :> Method(sMax, Sig1int)) @@
    (sRange :> Method(sRange, Sig2int)) @@
    (sMinSize :> Method(sMinSize, Sig1int)) @@
    (sMaxSize :> Method(sMaxSize, Sig1int)) @@
    (sLength :> Method(sLength, Sig1int)) @@
    (sAlpha :> Method(sAlpha, Sig0)) @@
    (sNumeric :> Method(sNumeric, Sig0)) @@
    (sAlphaNumeric :> Method(sAlphaNumeric, Sig0)) @@
    (sMatch :> Method(sMatch, SigReg)) @@
    (sNoMatch :> Method(sNoMatch, SigReg)) @@
    (sAlphaDash :> Method(sAlphaDash, Sig0)) @@
    (sEmail :> Method(sEmail, Sig0)) @@
    (sIP :> Method(sIP, Sig0)) @@
    (sBase64 :> Method(sBase64, Sig0)) @@
    (sMobile :> Method(sMobile, Sig0)) @@
    (sTel :> Method(sTel, Sig0)) @@
    (sPhone :> Method(sPhone, Sig0)) @@
    (sZipCode :> Method(sZipCode, Sig0)) @@
    (sSetError :> Method(sSetError, <<"*Validation", "string", "string">>)) @@
    (sValid :> Method(sValid, <<"*Validation", "interface">>))

\* unFuncs without its last entry
unFuncsNoMatchFree == {sClear, sHasErrors, sErrorMap, sError, sapply, sCheck, sValid}

\* doesn't belong to validation functions
unFuncs == {sClear, sHasErrors, sErrorMap, sError, sapply, sCheck, sValid, sNoMatch}

\* func init(): every method whose name is not in unFuncs
init == [n \in {m \in DOMAIN Methods : m \notin unFuncs} |-> Methods[n]]

\* reflect.ValueOf(f) for a CustomFunc func(v *Validation, obj interface{}, key string)
CustomValue(f) == [fn |-> f, In |-> <<"*Validation", "interface", "string">>]

NumIn(fn) == Len(fn.In)

\* AddCustomFunc: the returned error and the registry after the call
AddCustomFunc(reg, name, f) ==
    IF name \in unFuncs
    THEN [err |-> "invalid function name", funcs |-> reg]
    ELSE [err |-> "nil",
          funcs |-> [n \in DOMAIN reg \cup {name} |->
                        IF n = name THEN CustomValue(f) ELSE reg[n]]]

\* numIn that forgets the receiver among the inputs it subtracts
numInLessThree(reg, name) ==
    IF name \notin DOMAIN reg
    THEN [err |-> "doesn't exsits valid function", num |-> 0]
    ELSE [err |-> "nil", num |-> NumIn(reg[name]) - 3]

\* numIn: sub *Validation obj and key and errDesc
numIn(reg, name) ==
    IF name \notin DOMAIN reg
    THEN [err |-> "doesn't exsits valid function", num |-> 0]
    ELSE [err |-> "nil", num |-> NumIn(reg[name]) - 4]

parseInt(a) ==
    IF a.ok THEN [err |-> "nil", p |-> IntV(a.i)] ELSE [err |-> "strconv.Atoi", p |-> IntV(0)]

parseRegexp(r) ==
    IF r.ok THEN [err |-> "nil", p |-> RegV(r.re)] ELSE [err |-> "regexp.Compile", p |-> RegV(<<>>)]

\* parseParam: modify the parameter's type to adapt the function input
parseParam(t, s) ==
    CASE t = "int" -> parseInt(Atoi(s))
      [] t = "string" -> [err |-> "nil", p |-> StrV(s)]
      [] t = "*regexp.Regexp" -> parseRegexp(regexpCompile(s))
      [] OTHER -> [err |-> "does not support", p |-> IntV(0)]

RECURSIVE trimLoop(_, _, _, _)
trimStep(fn, s, i, ts, r) ==
    IF r.err # "nil" THEN [err |-> r.err, ts |-> ts]
    ELSE trimLoop(fn, s, i + 1, Append(ts, r.p))

\* the loop of trim: s[i], 0-based, against fn.Type().In(i + 2)
trimLoop(fn, s, i, ts) ==
    IF i >= Len(s) THEN [err |-> "nil", ts |-> ts]
    ELSE IF i + 2 >= NumIn(fn) THEN [err |-> "reflect: In index out of range", ts |-> ts]
    ELSE trimStep(fn, s, i, ts, parseParam(fn.In[i + 3], TrimSpace(s[i + 1])))

trimKey(r, key) ==
    IF r.err # "nil" THEN r ELSE [err |-> "nil", ts |-> Append(r.ts, StrV(key))]

trim(reg, name, key, s) ==
    IF name \notin DOMAIN reg
    THEN [err |-> "doesn't exsits valid function", ts |-> <<>>]
    ELSE trimKey(trimLoop(reg[name], s, 0, <<>>), key)

ValidFunc(name, errMsg, params) == [Name |-> name, ErrMsg |-> errMsg, Params |-> params]

NoValidFunc == ValidFunc(<<>>, <<>>, <<>>)

\* parseFunc, a clause without "(": doesn't need parameter valid function
parseFuncBare(vfunc, errDesc, key, n) ==
    IF n.err # "nil" THEN [err |-> n.err, v |-> NoValidFunc]
    ELSE IF n.num # 0 THEN [err |-> "require parameters", v |-> NoValidFunc]
    ELSE [err |-> "nil", v |-> ValidFunc(vfunc, errDesc, <<StrV(key \o <<".">> \o vfunc)>>)]

parseFuncTrim(name, errDesc, t) ==
    IF t.err # "nil" THEN [err |-> t.err, v |-> NoValidFunc]
    ELSE [err |-> "nil", v |-> ValidFunc(name, errDesc, t.ts)]

\* parseFunc, the parameters: the num of param must be equal
parseFuncParams(reg, name, errDesc, key, n, params) ==
    IF n.num # Len(params) THEN [err |-> "require parameters", v |-> NoValidFunc]
    ELSE parseFuncTrim(name, errDesc, trim(reg, name, key \o <<".">> \o name, params))

\* parseFunc, a clause name(...); vfunc[start+1:end] panics when end is before it
parseFuncCall(reg, vfunc, errDesc, key, start, end, name, n) ==
    IF n.err # "nil" THEN [err |-> n.err, v |-> NoValidFunc]
    ELSE IF start + 1 > end THEN [err |-> "slice bounds out of range", v |-> NoValidFunc]
    ELSE parseFuncParams(reg, name, errDesc, key, n, Split(Slice(vfunc, start + 1, end), ","))

parseFuncAt(reg, vfunc, errDesc, key, start, end) ==
    IF start = -1 THEN parseFuncBare(vfunc, errDesc, key, numIn(reg, vfunc))
    ELSE IF end = -1 THEN [err |-> "invalid valid function", v |-> NoValidFunc]
    ELSE parseFuncCall(reg, vfunc, errDesc, key, start, end,
                       TrimSpace(Slice(vfunc, 0, start)),
                       numIn(reg, TrimSpace(Slice(vfunc, 0, start))))

parseFuncTrimmed(reg, vfunc, errDesc, key) ==
    parseFuncAt(reg, vfunc, errDesc, key, Index(vfunc, <<"(">>), Index(vfunc, <<")">>))

\* parseFunc; a panic inside it is recovered and returned as the error
parseFunc(reg, vfunc, errDesc, key) == parseFuncTrimmed(reg, TrimSpace(vfunc), errDesc, key)

RECURSIVE descLoop(_, _, _, _, _)
\* the loop of getRegFuncs over strings.Split(tag, ";"): the description of
\* the Match clause and the buffer of the remaining descriptions
descLoop(aTags, errDescTags, idx, regDescTag, buf) ==
    IF idx >= Len(aTags) THEN [regDescTag |-> regDescTag, buf |-> buf]
    ELSE IF Index(TrimSpace(aTags[idx + 1]), sMatchOpen) >= 0
         THEN descLoop(aTags, errDescTags, idx + 1,
                       IF Len(errDescTags) > idx THEN errDescTags[idx + 1] ELSE regDescTag,
                       buf)
         ELSE descLoop(aTags, errDescTags, idx + 1, regDescTag,
                       buf \o (IF idx > 0 /\ Len(errDescTags) > idx THEN <<";">> ELSE <<>>)
                           \o (IF Len(errDescTags) > idx THEN errDescTags[idx + 1] ELSE <<>>))

\* getRegFuncs, the descriptions: regDescTag and the new errDescTag
regDesc(tag, errDescTag) ==
    IF Len(errDescTag) > 0
    THEN IF Index(errDescTag, <<";">>) < 0
         THEN [regDescTag |-> errDescTag, buf |-> <<>>]
         ELSE descLoop(Split(tag, ";"), Split(errDescTag, ";"), 0, <<>>, <<>>)
    ELSE [regDescTag |-> <<>>, buf |-> <<>>]

NoRegFuncs(err) == [err |-> err, vfs |-> <<>>, newTag |-> <<>>, newErrDescTag |-> <<>>]

\* getRegFuncs, from the compiled pattern on
regFuncs(tag, key, index, end, reg, d) ==
    IF ~reg.ok THEN NoRegFuncs("regexp.Compile")
    ELSE [err |-> "nil",
          vfs |-> <<ValidFunc(sMatch, d.regDescTag,
                              <<RegV(reg.re), StrV(key \o <<".">> \o sMatch)>>)>>,
          newTag |-> TrimSpace(Slice(tag, 0, index))
                     \o TrimSpace(Slice(tag, end + Len(sMatchClose), Len(tag))),
          newErrDescTag |-> d.buf]

\* getRegFuncs, with index and end found; tag[index+7:end] panics when end
\* is before index+7, and no recover stands between it and the caller of Valid
getRegFuncsAt(tag, errDescTag, key, index, end) ==
    IF index = -1
    THEN [err |-> "nil", vfs |-> <<>>, newTag |-> tag, newErrDescTag |-> errDescTag]
    ELSE IF end < index THEN NoRegFuncs("invalid Match function")
    ELSE IF index + Len(sMatchOpen) > end THEN NoRegFuncs("panic: slice bounds out of range")
    ELSE regFuncs(tag, key, index, end,
                  regexpCompile(Slice(tag, index + Len(sMatchOpen), end)),
                  regDesc(tag, errDescTag))

\* getRegFuncs closing the pattern at the first "/)" instead of the last
getRegFuncsFirstClose(tag, errDescTag, key) ==
    getRegFuncsAt(tag, errDescTag, key, Index(tag, sMatchOpen), Index(tag, sMatchClose))

\* getRegFuncs: Get Match function
getRegFuncs(tag, errDescTag, key) ==
    getRegFuncsAt(tag, errDescTag, key, Index(tag, sMatchOpen), LastIndex(tag, sMatchClose))

RECURSIVE clauseLoop(_, _, _, _, _, _, _)
clauseStep(reg, fs, fsDesc, isFsArray, errDescTag, name, st, r) ==
    IF r.err # "nil" THEN [err |-> r.err, vfs |-> st.vfs]
    ELSE clauseLoop(reg, fs, fsDesc, isFsArray, errDescTag, name,
                    [idx |-> st.idx + 1, vfs |-> Append(st.vfs, r.v)])

\* the loop of getValidFuncs over strings.Split(tag, ";")
clauseLoop(reg, fs, fsDesc, isFsArray, errDescTag, name, st) ==
    IF st.idx >= Len(fs) THEN [err |-> "nil", vfs |-> st.vfs]
    ELSE IF Len(fs[st.idx + 1]) = 0
    THEN clauseLoop(reg, fs, fsDesc, isFsArray, errDescTag, name,
                    [st EXCEPT !.idx = st.idx + 1])
    ELSE clauseStep(reg, fs, fsDesc, isFsArray, errDescTag, name, st,
                    parseFunc(reg, fs[st.idx + 1],
                              IF ~isFsArray THEN errDescTag
                              ELSE IF Len(fsDesc) > st.idx THEN fsDesc[st.idx + 1]
                              ELSE <<>>,
                              name))

\* getValidFuncs, after getRegFuncs
validFuncs(reg, name, g) ==
    IF g.err # "nil" THEN [err |-> g.err, vfs |-> <<>>]
    ELSE IF Index(g.newErrDescTag, <<";">>) >= 0
    THEN clauseLoop(reg, Split(g.newTag, ";"), Split(g.newErrDescTag, ";"), TRUE,
                    g.newErrDescTag, name, [idx |-> 0, vfs |-> g.vfs])
    ELSE clauseLoop(reg, Split(g.newTag, ";"), <<>>, FALSE,
                    g.newErrDescTag, name, [idx |-> 0, vfs |-> g.vfs])

\* getValidFuncs: the rules of one struct field, from its valid and vdesc tags
getValidFuncs(reg, f) ==
    IF Len(TrimSpace(f.valid)) = 0 THEN [err |-> "nil", vfs |-> <<>>]
    ELSE validFuncs(reg, f.Name,
                    getRegFuncs(TrimSpace(f.valid), TrimSpace(f.vdesc), f.Name))

(***************************************************************************)
(* Inputs: a field is declared by its clauses; the valid tag is the text   *)
(* of the clauses joined by ";".                                           *)
(***************************************************************************)
RECURSIVE Join(_, _)
Join(ss, sep) ==
    IF ss = <<>> THEN <<>>
    ELSE IF Len(ss) = 1 THEN ss[1]
    ELSE ss[1] \o <<sep>> \o Join(Tail(ss), sep)

\* the clause name(arg, ...) or the bare clause name
Clause(name, args) == [name |-> name, args |-> args]

ClauseText(c) ==
    IF c.args = <<>> THEN c.name
    ELSE c.name \o <<"(">> \o Join(c.args, ",") \o <<")">>

TagText(clauses) == Join([k \in 1..Len(clauses) |-> ClauseText(clauses[k])], ";")

StructField(name, clauses, vdesc, value) ==
    [Name |-> name, valid |-> TagText(clauses), vdesc |-> vdesc,
     Value |-> value, decl |-> clauses]


(***************************************************************************)
(* Predicate library: what IsSatisfied and DefaultMessage of a validator   *)
(* do.  A validator is its type, its limit arguments and its key.          *)
(***************************************************************************)
NilV == [kind |-> "nil", i |-> 0, s |-> <<>>]

Letters ==
    {"a","b","c","d","e","f","g","h","i","j","k","l","m",
     "n","o","p","q","r","s","t","u","v","w","x","y","z",
     "A","B","C","D","E","F","G","H","I","J","K","L","M",
     "N","O","P","Q","R","S","T","U","V","W","X","Y","Z"}

DigitChars == {Digits[d] : d \in 1..10}

AllIn(x, chars) == x.kind = "string" /\ \A k \in 1..Len(x.s) : x.s[k] \in chars

\* the text a pattern of literal characters and groups matches
Literal(re) == SelectSeq(re, LAMBDA c : c \notin {"(", ")"})

Validator(type, args, key) == [type |-> type, args |-> args, Key |-> key]

IsSatisfied(chk, x) ==
    CASE chk.type = sRequired ->
            \/ x.kind = "int" /\ x.i # 0
            \/ x.kind = "string" /\ x.s # <<>>
      [] chk.type = sMin -> x.kind = "int" /\ x.i >= chk.args[1].i
      [] chk.type = sMax -> x.kind = "int" /\ x.i <= chk.args[1].i
      [] chk.type = sRange ->
            x.kind = "int" /\ x.i >= chk.args[1].i /\ x.i <= chk.args[2].i
      [] chk.type = sMinSize -> x.kind = "string" /\ Len(x.s) >= chk.args[1].i
      [] chk.type = sMaxSize -> x.kind = "string" /\ Len(x.s) <= chk.args[1].i
      [] chk.type = sLength -> x.kind = "string" /\ Len(x.s) = chk.args[1].i
      [] chk.type = sAlpha -> AllIn(x, Letters)
      [] chk.type = sNumeric -> AllIn(x, DigitChars)
      [] chk.type = sAlphaNumeric -> AllIn(x, Letters \cup DigitChars)
      [] chk.type = sAlphaDash -> AllIn(x, Letters \cup DigitChars \cup {"_", "-"})
      [] chk.type = sMatch -> x.kind = "string" /\ x.s = Literal(chk.args[1].s)
      [] chk.type = sNoMatch -> ~(x.kind = "string" /\ x.s = Literal(chk.args[1].s))

DefaultMessage(chk) == <<"#">> \o chk.type

GetKey(chk) == chk.Key

(***************************************************************************)
(* Validation context (validation.go).  v.Errors is the sequence of the    *)
(* errors; an *Error is the position of the error in v.Errors, so that     *)
(* v.ErrorsMap and a Result share the error with v.Errors.  A nil          *)
(* ErrorsMap is the map with no entry.                                     *)
(***************************************************************************)
NewError(message, key, name, field, value) ==
    [Message |-> message, Key |-> key, Name |-> name, Field |-> field, Value |-> value]

\* the zero value of Validation
NewValidation == [Errors |-> <<>>, ErrorsMap |-> <<>>]

Clear(ctx) == [Errors |-> <<>>, ErrorsMap |-> <<>>]

\* HasErrors with the comparison off by one
HasErrorsOffByOne(ctx) == Len(ctx.Errors) > 1

HasErrors(ctx) == Len(ctx.Errors) > 0

ErrorMap(ctx) == ctx.ErrorsMap

\* setError with the map entry overwritten by every error
setErrorLastWins(ctx, err) ==
    [Errors |-> Append(ctx.Errors, err),
     ErrorsMap |-> [f \in DOMAIN ctx.ErrorsMap \cup {err.Field} |->
                      IF f = err.Field THEN Len(ctx.Errors) + 1 ELSE ctx.ErrorsMap[f]]]

setError(ctx, err) ==
    [Errors |-> Append(ctx.Errors, err),
     ErrorsMap |-> IF err.Field \in DOMAIN ctx.ErrorsMap THEN ctx.ErrorsMap
                   ELSE [f \in DOMAIN ctx.ErrorsMap \cup {err.Field} |->
                            IF f = err.Field THEN Len(ctx.Errors) + 1
                            ELSE ctx.ErrorsMap[f]]]

\* SetError: Set error message for one field
SetError(ctx, fieldName, errMsg) ==
    setError(ctx, NewError(errMsg, fieldName, <<>>, fieldName, NilV))

\* Error: Add an error to the validation context (the field map is untouched)
Error(ctx, message) ==
    [ctx EXCEPT !.Errors = Append(ctx.Errors, NewError(message, <<>>, <<>>, <<>>, NilV))]

\* Result.Key on a Result whose Error is the e-th error
Key(ctx, e, key) == [ctx EXCEPT !.Errors[e].Key = key]

\* Result.Message on a Result whose Error is the e-th error
Message(ctx, e, message) == [ctx EXCEPT !.Errors[e].Message = message]

\* apply, a check that is not satisfied: Add the error to the validation context
applyError(ctx, chk, x, errDesc, key, parts) ==
    [v |-> setError(ctx, NewError(IF TrimSpace(errDesc) = <<>> THEN DefaultMessage(chk)
                                  ELSE errDesc,
                                  key,
                                  IF Len(parts) = 2 THEN parts[2] ELSE key,
                                  IF Len(parts) = 2 THEN parts[1] ELSE <<>>,
                                  x)),
     Ok |-> FALSE, Error |-> Len(ctx.Errors) + 1]

\* apply: the context after the check and the Result (Error = 0 is nil)
apply(ctx, chk, x, errDesc) ==
    IF IsSatisfied(chk, x) THEN [v |-> ctx, Ok |-> TRUE, Error |-> 0]
    ELSE applyError(ctx, chk, x, errDesc, GetKey(chk), Split(GetKey(chk), "."))

\* the bodies of the registered custom functions: f1 rejects the zero values
\* through SetError, f2 accepts every value
CustomFns == {"f1", "f2"}

CustomFunc(f, ctx, x, key) ==
    IF f = "f1" /\ (x.kind = "nil" \/ (x.kind = "int" /\ x.i = 0) \/ (x.kind = "string" /\ x.s = <<>>))
    THEN SetError(ctx, key, <<"f","1">>)
    ELSE ctx

\* mergeParam, without the leading v
mergeParam(x, errDesc, params) == <<x>> \o params \o <<StrV(errDesc)>>

KindOf(t) ==
    CASE t = "int" -> {"int"}
      [] t = "string" -> {"string"}
      [] t = "*regexp.Regexp" -> {"regexp"}
      [] OTHER -> {"int", "string", "regexp", "nil"}

Called(r) == [err |-> "nil", v |-> r.v, Ok |-> r.Ok]

\* the function value called with in = <<obj, parameters...>>
Invoke(fn, ctx, in) ==
    IF fn.fn \in CustomFns
    THEN [v |-> CustomFunc(fn.fn, ctx, in[1], in[2].s), Ok |-> TRUE, Error |-> 0]
    ELSE IF fn.fn = sSetError
    THEN [v |-> SetError(ctx, in[1].s, in[2].s), Ok |-> TRUE, Error |-> 0]
    ELSE apply(ctx, Validator(fn.fn, SubSeq(in, 2, Len(in) - 2), in[Len(in) - 1].s),
               in[1], in[Len(in)].s)

\* Funcs.Call; a panic of the reflect call is recovered and returned
Call(reg, name, ctx, params) ==
    IF name \notin DOMAIN reg
    THEN [err |-> "does not exist", v |-> ctx, Ok |-> FALSE]
    ELSE IF Len(params) + 1 # NumIn(reg[name])
    THEN [err |-> "The number of params is not adapted", v |-> ctx, Ok |-> FALSE]
    ELSE IF \E k \in 1..Len(params) : params[k].kind \notin KindOf(reg[name].In[k + 1])
    THEN [err |-> "reflect: Call using wrong type", v |-> ctx, Ok |-> FALSE]
    ELSE Called(Invoke(reg[name], ctx, params))

\* a record: its reflect kind and, for a struct or a pointer to one, its fields
isStruct(o) == o.kind = "struct"

isStructPtr(o) == o.kind = "ptr" /\ o.elem = "struct"

Outcome(kind, msg, err) == [kind |-> kind, msg |-> msg, err |-> err]

Returned(ctx, tr, r) == [v |-> ctx, trace |-> tr, ret |-> r]

Dispatch(i, j, vf, fn, ok) == [field |-> i, rule |-> j, Name |-> vf.Name, fn |-> fn, Ok |-> ok]

RECURSIVE ruleLoop(_, _, _, _, _, _)
\* Valid without the return after a failed rule
ruleStepNoReturn(reg, f, i, vfs, st, c, tr) ==
    ruleLoop(reg, c.v, f, i, vfs, [j |-> st.j + 1, trace |-> tr])

\* Valid, after the call of one rule
ruleStep(reg, f, i, vfs, st, c, tr) ==
    IF HasErrors(c.v)
    THEN Returned(c.v, tr, Outcome("validation", c.v.Errors[1].Message, "nil"))
    ELSE ruleLoop(reg, c.v, f, i, vfs, [j |-> st.j + 1, trace |-> tr])

ruleCalled(reg, ctx, f, i, vfs, st, c) ==
    IF c.err # "nil" THEN Returned(ctx, st.trace, Outcome("call", <<>>, c.err))
    ELSE ruleStep(reg, f, i, vfs, st, c,
                  Append(st.trace, Dispatch(i, st.j, vfs[st.j], reg[vfs[st.j].Name].fn, c.Ok)))

\* the inner loop of Valid over the rules of field i; ret.kind = "next" when
\* the loop ends without a return
ruleLoop(reg, ctx, f, i, vfs, st) ==
    IF st.j > Len(vfs) THEN Returned(ctx, st.trace, Outcome("next", <<>>, "nil"))
    ELSE ruleCalled(reg, ctx, f, i, vfs, st,
                    Call(reg, vfs[st.j].Name, ctx,
                         mergeParam(f.Value, vfs[st.j].ErrMsg, vfs[st.j].Params)))

RECURSIVE fieldLoop(_, _, _, _, _)
fieldDone(reg, fields, i, r) ==
    IF r.ret.kind # "next" THEN r ELSE fieldLoop(reg, r.v, fields, i + 1, r.trace)

\* Valid going on to the next field when an annotation does not compile
fieldRulesSkipField(reg, ctx, fields, i, tr, g) ==
    IF g.err = "panic: slice bounds out of range"
    THEN Returned(ctx, tr, Outcome("panic", <<>>, g.err))
    ELSE IF g.err # "nil" THEN fieldLoop(reg, ctx, fields, i + 1, tr)
    ELSE fieldDone(reg, fields, i,
                   ruleLoop(reg, ctx, fields[i], i, g.vfs, [j |-> 1, trace |-> tr]))

fieldRules(reg, ctx, fields, i, tr, g) ==
    IF g.err = "panic: slice bounds out of range"
    THEN Returned(ctx, tr, Outcome("panic", <<>>, g.err))
    ELSE IF g.err # "nil" THEN Returned(ctx, tr, Outcome("compile", <<>>, g.err))
    ELSE fieldDone(reg, fields, i,
                   ruleLoop(reg, ctx, fields[i], i, g.vfs, [j |-> 1, trace |-> tr]))

\* the outer loop of Valid over the fields, from the i-th, 1-based
fieldLoop(reg, ctx, fields, i, tr) ==
    IF i > Len(fields) THEN Returned(ctx, tr, Outcome("nil", <<>>, "nil"))
    ELSE fieldRules(reg, ctx, fields, i, tr, getValidFuncs(reg, fields[i]))

\* Valid: Validate a struct.  reflect.TypeOf(nil) is the nil Type, and Kind
\* on it is a nil dereference.
Valid(reg, ctx, o) ==
    IF o.kind = "nil"
    THEN Returned(ctx, <<>>, Outcome("panic", <<>>, "panic: nil pointer dereference"))
    ELSE IF ~isStruct(o) /\ ~isStructPtr(o)
    THEN Returned(ctx, <<>>, Outcome("input", <<>>, "must be a struct or a struct pointer"))
    ELSE fieldLoop(reg, ctx, o.fields, 1, <<>>)

(***************************************************************************)
(* Inputs of the operations.                                               *)
(***************************************************************************)
sFoo == <<"F","o","o">>

d1 == <<"d","1">>

d2 == <<"d","2">>

d3 == <<"d","3">>

m1 == <<"m","1">>

m2 == <<"m","2">>

cRequired == Clause(sRequired, <<>>)

cRange == Clause(sRange, << <<"1">>, <<" ","3">> >>)

cFoo == Clause(sFoo, <<>>)

\* the clause Match(/body/)
cMatch(body) == Clause(sMatch, << <<"/">> \o body \o <<"/">> >>)

FieldNames == << <<"A">>, <<"B">>, <<"C">>, <<"D">> >>

\* the declarations of a field of a validated struct: clauses, vdesc, value
FieldSpecs ==
    { << <<cRequired>>, d1, StrV(<<>>) >>,
      << <<cRequired, cMatch(<<"a">>)>>, d1 \o <<";">> \o d2, StrV(<<>>) >>,
      << <<cRequired, cRange>>, <<>>, IntV(2) >>,
      << <<cMatch(<<"a">>), cFoo>>, <<>>, StrV(<<>>) >>,
      << <<cRequired, Clause(sMin, << <<"x">> >>)>>, <<>>, IntV(2) >>,
      << <<Clause(sMatch, << <<"/">> >>)>>, <<>>, StrV(<<"a">>) >> }

RECURSIVE SeqsUpTo(_, _)
\* the sequences over S of length 1..n
SeqsUpTo(S, n) ==
    IF n = 0 THEN {}
    ELSE LET shorter == SeqsUpTo(S, n - 1)
         IN {<<x>> : x \in S} \cup shorter \cup {Append(q, x) : q \in shorter, x \in S}

FieldsOf(specs) ==
    [k \in 1..Len(specs) |-> StructField(FieldNames[k], specs[k][1], specs[k][2], specs[k][3])]

Struct(fields) == [kind |-> "struct", elem |-> "", fields |-> fields]

StructPtr(fields) == [kind |-> "ptr", elem |-> "struct", fields |-> fields]

NonStructs ==
    { [kind |-> "nil", elem |-> "", fields |-> <<>>],
      [kind |-> "int", elem |-> "", fields |-> <<>>],
      [kind |-> "ptr", elem |-> "int", fields |-> <<>>] }

\* the values handed to Valid
Objects ==
    {Struct(FieldsOf(q)) : q \in SeqsUpTo(FieldSpecs, MaxFields)}
    \cup {StructPtr(FieldsOf(<<x>>)) : x \in FieldSpecs}
    \cup NonStructs

\* the names handed to AddCustomFunc
AddNames ==
    {sClear, sHasErrors, sErrorMap, sError, sapply, sCheck, sValid, sNoMatch, sRequired, sFoo}

(***************************************************************************)
(* Operations on the registry and on one validation context.  op, arg,    *)
(* ret and trace record the last call, its inputs, what it returned and    *)
(* the rules it dispatched; results are the errors of the Results the      *)
(* caller holds; manual are the errors appended by Error.                  *)
(***************************************************************************)
InitWith(objects) ==
    /\ funcs = init
    /\ v = NewValidation
    /\ results = {}
    /\ manual = {}
    /\ obj \in objects
    /\ op = "init"
    /\ arg = <<>>
    /\ ret = Outcome("nil", <<>>, "nil")
    /\ trace = <<>>

AddCustomFuncReturns(name, f, r) ==
    /\ funcs' = r.funcs
    /\ op' = "AddCustomFunc"
    /\ arg' = [name |-> name, f |-> f]
    /\ ret' = Outcome(IF r.err = "nil" THEN "nil" ELSE "error", <<>>, r.err)
    /\ trace' = <<>>
    /\ UNCHANGED <<v, results, manual, obj>>

DoAddCustomFunc(names, fns) ==
    \E name \in names, f \in fns : AddCustomFuncReturns(name, f, AddCustomFunc(funcs, name, f))

ValidReturns(r) ==
    /\ v' = r.v
    /\ op' = "Valid"
    /\ arg' = [entry |-> v]
    /\ ret' = r.ret
    /\ trace' = r.trace
    /\ UNCHANGED <<funcs, results, manual, obj>>

DoValid ==
    /\ Len(v.Errors) <= MaxErrors
    /\ ValidReturns(Valid(funcs, v, obj))

DoSetError(fieldNames, msgs) ==
    /\ Len(v.Errors) < MaxErrors
    /\ \E fieldName \in fieldNames, errMsg \in msgs :
          /\ v' = SetError(v, fieldName, errMsg)
          /\ arg' = [fieldName |-> fieldName, errMsg |-> errMsg]
    /\ op' = "SetError"
    /\ ret' = Outcome("nil", <<>>, "nil")
    /\ trace' = <<>>
    /\ UNCHANGED <<funcs, results, manual, obj>>

DoError(msgs) ==
    /\ Len(v.Errors) < MaxErrors
    /\ \E message \in msgs :
          /\ v' = Error(v, message)
          /\ arg' = [message |-> message]
    /\ results' = results \cup {Len(v.Errors) + 1}
    /\ manual' = manual \cup {Len(v.Errors) + 1}
    /\ op' = "Error"
    /\ ret' = Outcome("nil", <<>>, "nil")
    /\ trace' = <<>>
    /\ UNCHANGED <<funcs, obj>>

DoClear ==
    /\ v' = Clear(v)
    /\ results' = {}
    /\ manual' = {}
    /\ op' = "Clear"
    /\ arg' = <<>>
    /\ ret' = Outcome("nil", <<>>, "nil")
    /\ trace' = <<>>
    /\ UNCHANGED <<funcs, obj>>

\* a per-rule operation: Required(obj, key, errDesc), Min(obj, min, key, errDesc), ...
RuleReturns(chk, x, errDesc, r) ==
    /\ v' = r.v
    /\ results' = IF r.Ok THEN results ELSE results \cup {r.Error}
    /\ arg' = [chk |-> chk, x |-> x, errDesc |-> errDesc]
    /\ ret' = Outcome(IF r.Ok THEN "nil" ELSE "validation", <<>>, "nil")
    /\ op' = "Rule"
    /\ trace' = <<>>
    /\ UNCHANGED <<funcs, manual, obj>>

DoRule(chks, values, descs) ==
    /\ Len(v.Errors) < MaxErrors
    /\ \E chk \in chks, x \in values, errDesc \in descs :
          RuleReturns(chk, x, errDesc, apply(v, chk, x, errDesc))

DoKey(keys) ==
    /\ \E e \in results, key \in keys :
          /\ v' = Key(v, e, key)
          /\ arg' = [e |-> e, key |-> key]
    /\ op' = "Key"
    /\ ret' = Outcome("nil", <<>>, "nil")
    /\ trace' = <<>>
    /\ UNCHANGED <<funcs, results, manual, obj>>

DoMessage(msgs) ==
    /\ \E e \in results, message \in msgs :
          /\ v' = Message(v, e, message)
          /\ arg' = [e |-> e, message |-> message]
    /\ op' = "Message"
    /\ ret' = Outcome("nil", <<>>, "nil")
    /\ trace' = <<>>
    /\ UNCHANGED <<funcs, results, manual, obj>>

\* the engine: Valid calls on a context that may already hold errors, with
\* registrations in between
Init == InitWith(Objects)

Next ==
    \/ DoAddCustomFunc({sRequired, sFoo}, {"f1"})
    \/ DoValid
    \/ DoSetError({<<"A">>}, {m1})
    \/ DoError({m1})
    \/ DoClear

Spec == Init /\ [][Next]_vars

\* the registry: registrations under every kind of name, and Valid calls
InitReg == InitWith({Struct(FieldsOf(<<x>>)) : x \in FieldSpecs})

NextReg ==
    \/ DoAddCustomFunc(AddNames, CustomFns)
    \/ DoValid

SpecReg == InitReg /\ [][NextReg]_vars

\* one validation context: the per-rule operations, SetError, Error,
\* Result.Key, Result.Message and Clear
CtxChecks ==
    { Validator(sRequired, <<>>, <<"A",".">> \o sRequired),
      Validator(sRequired, <<>>, <<"k">>),
      Validator(sRange, <<IntV(1), IntV(3)>>, <<"A",".">> \o sRange) }

InitCtx == InitWith({Struct(<<>>)})

NextCtx ==
    \/ DoRule(CtxChecks, {IntV(0), IntV(2)}, {<<>>, d1})
    \/ DoSetError({<<>>, <<"A">>}, {m1})
    \/ DoError({m1})
    \/ DoKey({<<"B",".","x">>})
    \/ DoMessage({m2})
    \/ DoClear

SpecCtx == InitCtx /\ [][NextCtx]_vars

\* the rule compiler as a function of the tags of one field
ClauseSet ==
    { cRequired,
      cRange,
      Clause(sMin, << <<"x">> >>),
      Clause(sMin, <<>>),
      cFoo,
      Clause(<<>>, <<>>),
      cMatch(<<"a">>),
      cMatch(<<"(","a",";","b",")">>),
      Clause(sMatch, << <<"/">> >>) }

DescSet == { <<>>, d1, d1 \o <<";">> \o d2 \o <<";">> \o d3 }

CompileObjects ==
    {Struct(<<StructField(FieldNames[1], q, d, StrV(<<>>))>>) :
        q \in SeqsUpTo(ClauseSet, MaxClauses), d \in DescSet}

InitCompile == InitWith(CompileObjects)

DoGetValidFuncs ==
    /\ op' = "getValidFuncs"
    /\ arg' = <<>>
    /\ ret' = getValidFuncs(funcs, obj.fields[1])
    /\ UNCHANGED <<funcs, v, results, manual, obj, trace>>

DoParseFunc ==
    \E k \in 1..Len(obj.fields[1].decl) :
        /\ op' = "parseFunc"
        /\ arg' = [k |-> k]
        /\ ret' = parseFunc(funcs, ClauseText(obj.fields[1].decl[k]), <<>>, obj.fields[1].Name)
        /\ UNCHANGED <<funcs, v, results, manual, obj, trace>>

NextCompile ==
    \/ DoGetValidFuncs
    \/ DoParseFunc

SpecCompile == InitCompile /\ [][NextCompile]_vars

(***************************************************************************)
(* Properties of Valid (Spec).                                             *)
(***************************************************************************)
\* the last operation was Valid on a struct or a pointer to one
ValidOnStruct == op = "Valid" /\ (isStruct(obj) \/ isStructPtr(obj))

\* ... entered with a context that holds no error
FreshValid == ValidOnStruct /\ arg.entry.Errors = <<>>

\* the check a compiled rule stands for, and whether the value passes it
RuleCheck(vf) ==
    Validator(vf.Name, SubSeq(vf.Params, 1, Len(vf.Params) - 1), vf.Params[Len(vf.Params)].s)

RuleSatisfied(vf, x) == IsSatisfied(RuleCheck(vf), x)

\* the message a failing rule reports: its description, else the default one
RuleMessage(vf) ==
    IF TrimSpace(vf.ErrMsg) = <<>> THEN DefaultMessage(RuleCheck(vf)) ELSE vf.ErrMsg

Compiled(i) == getValidFuncs(funcs, obj.fields[i])

\* every annotation compiles and every rule of every field is satisfied
AllSatisfied ==
    \A i \in 1..Len(obj.fields) :
        /\ Compiled(i).err = "nil"
        /\ \A j \in 1..Len(Compiled(i).vfs) :
              RuleSatisfied(Compiled(i).vfs[j], obj.fields[i].Value)

Failed == {k \in 1..Len(trace) : ~trace[k].Ok}

FirstFailed == CHOOSE k \in Failed : \A l \in Failed : k <= l

\* the rule of the k-th dispatch of the call
DispatchedRule(k) == Compiled(trace[k].field).vfs[trace[k].rule]

\* the error the call appended to the context
NewErrorOfCall == v.Errors[Len(arg.entry.Errors) + 1]

\* what C1 states of a Valid call
ValidReturnsFirstFailure ==
    /\ ret.kind = "nil" <=> AllSatisfied
    /\ Failed # {} =>
          /\ ret.kind = "validation"
          /\ Len(v.Errors) = Len(arg.entry.Errors) + 1
          /\ NewErrorOfCall.Key = RuleCheck(DispatchedRule(FirstFailed)).Key
          /\ NewErrorOfCall.Message = RuleMessage(DispatchedRule(FirstFailed))
          /\ ret.msg = NewErrorOfCall.Message

\* C1 as stated: for every state of the context at entry, Valid returns nil
\* iff every rule of every field is satisfied, and when a rule fails it
\* returns the message of the error of the first rule that failed in the call.
C1_AnyContext == ValidOnStruct => ValidReturnsFirstFailure

\* C1 amended: the same for a context that holds no error at entry, fresh or
\* cleared; nil is returned iff every annotation compiles and every rule is
\* satisfied.
C1_FreshContext == FreshValid => ValidReturnsFirstFailure

\* C1 witness: a call on a fresh context whose second field fails a rule
\* after the rules of the first field passed
C1_Witness ==
    /\ FreshValid
    /\ ret.kind = "validation"
    /\ Len(trace) > 1
    /\ trace[Len(trace)].field = 2

\* the dispatches of the call are the rules of the fields in order, up to
\* and including the k-th
DispatchedInOrder(k) ==
    /\ \A l \in 1..k :
          /\ trace[l].rule \in 1..Len(Compiled(trace[l].field).vfs)
          /\ trace[l].Name = DispatchedRule(l).Name
    /\ trace[1].field = Least({i \in 1..Len(obj.fields) : Compiled(i).vfs # <<>>}, 0)
    /\ trace[1].rule = 1
    /\ \A l \in 1..(k - 1) :
          \/ /\ trace[l + 1].field = trace[l].field
             /\ trace[l + 1].rule = trace[l].rule + 1
          \/ /\ trace[l].rule = Len(Compiled(trace[l].field).vfs)
             /\ trace[l + 1].rule = 1
             /\ trace[l + 1].field =
                   Least({i \in (trace[l].field + 1)..Len(obj.fields) : Compiled(i).vfs # <<>>}, 0)

DeclaredNames(i) ==
    [k \in 1..Len(SelectSeq(obj.fields[i].decl, LAMBDA c : c.name # <<>>)) |->
        SelectSeq(obj.fields[i].decl, LAMBDA c : c.name # <<>>)[k].name]

\* the names of the rules dispatched for field i, in the order of the dispatches
DispatchedNames(i) ==
    [k \in 1..Len(SelectSeq(trace, LAMBDA t : t.field = i)) |->
        SelectSeq(trace, LAMBDA t : t.field = i)[k].Name]

IsPrefix(p, q) == Len(p) <= Len(q) /\ SubSeq(q, 1, Len(p)) = p

\* C3 as stated: the rules of a field are executed in the order in which
\* their clauses are declared, a Match(/.../) clause declared after other
\* clauses included.
C3_DeclarationOrder ==
    ValidOnStruct =>
        \A i \in 1..Len(obj.fields) : IsPrefix(DispatchedNames(i), DeclaredNames(i))

\* C4 as stated: once AddCustomFunc(name, f) has returned nil, a field whose
\* annotation is the bare rule name compiles, and Valid dispatches it to f.
C4_CustomDispatched ==
    ( /\ FreshValid
      /\ Len(obj.fields[1].decl) = 1
      /\ obj.fields[1].decl[1].args = <<>>
      /\ obj.fields[1].decl[1].name \in DOMAIN funcs
      /\ funcs[obj.fields[1].decl[1].name].fn \in CustomFns )
    => /\ ret.kind # "compile"
       /\ trace # <<>>
       /\ trace[1].fn = funcs[obj.fields[1].decl[1].name].fn

(***************************************************************************)
(* Properties of the registry (SpecReg).                                   *)
(***************************************************************************)
\* what AddCustomFunc does in a step, given the names it rejects
AddCustomFuncRejects(reserved) ==
    op' = "AddCustomFunc" =>
        /\ ret'.kind = "error" <=> arg'.name \in reserved
        /\ ret'.kind = "error" => funcs' = funcs
        /\ ret'.kind = "nil" =>
              /\ DOMAIN funcs' = DOMAIN funcs \cup {arg'.name}
              /\ funcs'[arg'.name] = CustomValue(arg'.f)
              /\ \A n \in DOMAIN funcs \ {arg'.name} : funcs'[n] = funcs[n]

\* C5 as stated: AddCustomFunc returns an error exactly for Clear, HasErrors,
\* ErrorMap, Error, Valid, apply and Check and then changes no entry; for
\* every other name it returns nil, sets the entry of the name to f and
\* changes no other entry.
C5_ReservedAsListed ==
    [][AddCustomFuncRejects({sClear, sHasErrors, sErrorMap, sError, sValid, sapply, sCheck})]_vars

\* C5 amended: the same with NoMatch among the rejected names.
C5_ReservedWithNoMatch ==
    [][AddCustomFuncRejects({sClear, sHasErrors, sErrorMap, sError, sValid, sapply, sCheck,
                             sNoMatch})]_vars

\* C5 witness: Foo was registered as f2 after Required was replaced by f1
C5_Witness ==
    /\ op = "AddCustomFunc"
    /\ ret.kind = "nil"
    /\ arg.name = sFoo
    /\ funcs[sFoo].fn = "f2"
    /\ funcs[sRequired].fn = "f1"
    /\ funcs[sMin] = init[sMin]

(***************************************************************************)
(* Properties of the validation context (SpecCtx).                         *)
(***************************************************************************)
\* the positions in Errors of the errors of field f among the positions in S
ErrorsOfField(f, S) == {e \in S : v.Errors[e].Field = f}

\* every entry of ErrorMap is the earliest of the errors of its field among
\* the positions in S, and every field of an error in S has an entry
FirstWins(S) ==
    /\ \A f \in DOMAIN ErrorMap(v) :
          /\ ErrorMap(v)[f] \in ErrorsOfField(f, S)
          /\ \A e \in ErrorsOfField(f, S) : ErrorMap(v)[f] <= e
    /\ \A e \in S : v.Errors[e].Field \in DOMAIN ErrorMap(v)

\* C6 as stated: after any sequence of per-rule operations, SetError, Error,
\* Result.Key, Result.Message and Clear, every entry of ErrorMap is the
\* earliest-inserted element of Errors whose Field is the entry's field.
C6_EarliestOfErrors ==
    \A f \in DOMAIN ErrorMap(v) :
        /\ ErrorMap(v)[f] \in ErrorsOfField(f, 1..Len(v.Errors))
        /\ \A e \in ErrorsOfField(f, 1..Len(v.Errors)) : ErrorMap(v)[f] <= e

\* C6 amended: every entry of ErrorMap is the earliest-inserted element of
\* Errors whose Field is the entry's field among the errors recorded by a
\* per-rule operation or SetError; the errors appended by Error have no
\* field and are never entered.
C6_EarliestRecorded == FirstWins((1..Len(v.Errors)) \ manual)

\* C6 witness: a second error of a field was appended after the first, and
\* the entry of the field is still the first
C6_Witness ==
    /\ Len(v.Errors) = 2
    /\ manual = {}
    /\ v.Errors[1].Field = <<"A">>
    /\ v.Errors[2].Field = <<"A">>
    /\ v.Errors[1].Message # v.Errors[2].Message
    /\ ErrorMap(v)[<<"A">>] = 1

(***************************************************************************)
(* Properties of the rule compiler (SpecCompile).                          *)
(***************************************************************************)
\* the field whose tags are compiled
CField == obj.fields[1]

\* the clause has the text of a Match(/.../) clause or of a part of one
IsMatchText(c) ==
    \/ Index(ClauseText(c), sMatchOpen) >= 0
    \/ Index(ClauseText(c), sMatchClose) >= 0

MatchClauses == {k \in 1..Len(CField.decl) : IsMatchText(CField.decl[k])}

\* the declared clauses from the first Match(/ to the last /), as text
SpanText ==
    TagText(SubSeq(CField.decl, Least(MatchClauses, 1), Greatest(MatchClauses, 0)))

\* the annotation holds a Match(/ and, after it, a /)
HasMatchSpan ==
    /\ MatchClauses # {}
    /\ Index(ClauseText(CField.decl[Least(MatchClauses, 1)]), sMatchOpen) = 0
    /\ Len(SpanText) >= Len(sMatchOpen) + Len(sMatchClose)

SpanPattern == Slice(SpanText, Len(sMatchOpen), Len(SpanText) - Len(sMatchClose))

\* the non-empty clauses declared outside the span, in order
OutsideClauses ==
    SelectSeq(SubSeq(CField.decl, 1, Least(MatchClauses, 1) - 1)
                \o SubSeq(CField.decl, Greatest(MatchClauses, 0) + 1, Len(CField.decl)),
              LAMBDA c : Len(ClauseText(c)) > 0)

\* a clause compiled on its own
Alone(c) == parseFunc(funcs, ClauseText(c), <<>>, CField.Name)

\* a rule without its description
Bare(vf) == [Name |-> vf.Name, Params |-> vf.Params]

\* the sequence q without its k-th element
Without(q, k) == SubSeq(q, 1, k - 1) \o SubSeq(q, k + 1, Len(q))

\* C7: for an annotation with a Match(/.../) clause, compilation succeeds
\* exactly when the text between the first Match(/ and the last /) is a
\* regular expression and every clause outside the span compiles on its own,
\* and then yields one Match rule with that text, verbatim, as pattern and
\* <fieldName>.Match as key, together with exactly the rules of the outside
\* clauses; no part of the regex body becomes a clause.
C7_MatchExtracted ==
    (op = "getValidFuncs" /\ HasMatchSpan) =>
        /\ ret.err = "nil" <=>
              /\ regexpCompile(SpanPattern).ok
              /\ \A k \in 1..Len(OutsideClauses) : Alone(OutsideClauses[k]).err = "nil"
        /\ ret.err = "nil" =>
              \E k \in 1..Len(ret.vfs) :
                  /\ Bare(ret.vfs[k]) =
                        [Name |-> sMatch,
                         Params |-> <<RegV(SpanPattern),
                                      StrV(CField.Name \o <<".">> \o sMatch)>>]
                  /\ Without([j \in 1..Len(ret.vfs) |-> Bare(ret.vfs[j])], k) =
                        [j \in 1..Len(OutsideClauses) |-> Bare(Alone(OutsideClauses[j]).v)]

\* C7 witness: a pattern with ";", "(" and ")" between two other clauses
C7_Witness ==
    /\ op = "getValidFuncs"
    /\ CField.decl = <<cRequired, cMatch(<<"(", "a", ";", "b", ")">>), cRange>>
    /\ ret.err = "nil"
    /\ Len(ret.vfs) = 3
    /\ \E k \in 1..3 : ret.vfs[k].Params[1] = RegV(<<"(", "a", ";", "b", ")">>)

\* the descriptions of the vdesc tag, by position
Descs == Split(CField.vdesc, ";")

\* C8: a non-empty description without ";" is the description of every rule
\* compiled for the field, the Match rule and the others alike.
C8_OneDescriptionForAll ==
    (/\ op = "getValidFuncs"
     /\ ret.err = "nil"
     /\ Len(CField.vdesc) > 0
     /\ Index(CField.vdesc, <<";">>) < 0) =>
        \A k \in 1..Len(ret.vfs) : ret.vfs[k].ErrMsg = CField.vdesc

\* the compiled rules in the order of their clauses: the Match rule, compiled
\* first, back at the position km of its clause
DeclOrder(vfs, km) ==
    [k \in 1..Len(vfs) |->
        IF k = km THEN vfs[1] ELSE IF k < km THEN vfs[k + 1] ELSE vfs[k]]

\* every clause is non-empty and at most one is a Match(/.../) clause
PlainAnnotation ==
    /\ \A k \in 1..Len(CField.decl) : Len(ClauseText(CField.decl[k])) > 0
    /\ Cardinality(MatchClauses) <= 1
    /\ \A k \in MatchClauses : Index(ClauseText(CField.decl[k]), <<";">>) < 0

\* C9: with ";" in the description string the k-th declared clause has the
\* k-th description, wherever the Match(/.../) clause is declared, and the
\* empty description when there is none at its position.
C9_PositionalDescriptions ==
    (/\ op = "getValidFuncs"
     /\ ret.err = "nil"
     /\ PlainAnnotation
     /\ Index(CField.vdesc, <<";">>) >= 0) =>
        /\ Len(ret.vfs) = Len(CField.decl)
        /\ \A k \in 1..Len(ret.vfs) :
              DeclOrder(ret.vfs, Least(MatchClauses, 0))[k].ErrMsg =
                  (IF k <= Len(Descs) THEN Descs[k] ELSE <<>>)

\* the supported validation functions of the README with their parameter counts
Documented ==
    (sRequired :> 0) @@ (sMin :> 1) @@ (sMax :> 1) @@ (sRange :> 2) @@ (sMinSize :> 1)
    @@ (sMaxSize :> 1) @@ (sLength :> 1) @@ (sAlpha :> 0) @@ (sNumeric :> 0)
    @@ (sAlphaNumeric :> 0) @@ (sMatch :> 1) @@ (sAlphaDash :> 0) @@ (sEmail :> 0)
    @@ (sIP :> 0) @@ (sBase64 :> 0) @@ (sMobile :> 0) @@ (sTel :> 0) @@ (sPhone :> 0)
    @@ (sZipCode :> 0)

\* every name in names is registered with its documented arity
RegisteredAsDocumented(names) ==
    \A n \in names :
        /\ n \in DOMAIN funcs
        /\ numIn(funcs, n).num = (Documented @@ (sNoMatch :> 1))[n]

\* the clause compiled by the last parseFunc
PClause == CField.decl[arg.k]

\* no argument of the clause holds a parenthesis
PlainArgs(c) ==
    \A k \in 1..Len(c.args) :
        Index(c.args[k], <<"(">>) < 0 /\ Index(c.args[k], <<")">>) < 0

\* the name of the clause is registered and its argument count is the arity
ArityMatches(c) ==
    /\ c.name \in DOMAIN funcs
    /\ Len(c.args) = numIn(funcs, c.name).num

\* the k-th argument of the clause as a value of the k-th parameter's type
Coerced(c, k) == parseParam(funcs[c.name].In[k + 2], TrimSpace(c.args[k]))

\* a compiled rule carries arity parameters followed by the dispatch key
ArityParamsThenKey(vf) ==
    /\ vf.Name \in DOMAIN funcs
    /\ Len(vf.Params) = numIn(funcs, vf.Name).num + 1
    /\ vf.Params[Len(vf.Params)] = StrV(CField.Name \o <<".">> \o vf.Name)

\* every rule compiled by the last operation carries arity parameters and the key
DescriptorsCarryArity ==
    /\ (op = "parseFunc" /\ ret.err = "nil") => ArityParamsThenKey(ret.v)
    /\ (op = "getValidFuncs" /\ ret.err = "nil") =>
          \A k \in 1..Len(ret.vfs) : ArityParamsThenKey(ret.vfs[k])

\* C10 as stated: the registry holds every built-in rule name, NoMatch
\* among them, with its documented parameter count as arity; a clause
\* compiles if and only if its name is registered and its argument count is
\* that arity; every compiled rule carries arity parameters and then the key.
C10_ArityDecidesCompilation ==
    /\ RegisteredAsDocumented(DOMAIN Documented \cup {sNoMatch})
    /\ (op = "parseFunc" /\ PlainArgs(PClause)) =>
          (ret.err = "nil" <=> ArityMatches(PClause))
    /\ DescriptorsCarryArity

\* C10 amended: the registry holds every built-in rule name except NoMatch
\* with its documented parameter count as arity, and no entry for NoMatch; a
\* clause compiles if and only if its name is registered, its argument count
\* is that arity and every argument converts to its parameter's type; every
\* compiled rule carries the arity converted arguments and then the key.
C10_ArityAndTypesDecideCompilation ==
    /\ RegisteredAsDocumented(DOMAIN Documented)
    /\ sNoMatch \notin DOMAIN funcs
    /\ (op = "parseFunc" /\ PlainArgs(PClause)) =>
          /\ ret.err = "nil" <=>
                /\ ArityMatches(PClause)
                /\ \A k \in 1..Len(PClause.args) : Coerced(PClause, k).err = "nil"
          /\ ret.err = "nil" =>
                \A k \in 1..Len(PClause.args) : ret.v.Params[k] = Coerced(PClause, k).p
    /\ DescriptorsCarryArity

\* C10 witness: Range(1, 3) compiled to its two integers and the key
C10_Witness ==
    /\ op = "parseFunc"
    /\ PClause = cRange
    /\ ret.err = "nil"
    /\ ret.v.Params = <<IntV(1), IntV(3), StrV(CField.Name \o <<".">> \o sRange)>>

(***************************************************************************)
(* Compile errors and faults of Valid (Spec).                              *)
(***************************************************************************)
\* the annotation of field k is the first that does not compile
FirstNotCompiled(k) ==
    /\ Compiled(k).err # "nil"
    /\ \A i \in 1..(k - 1) : Compiled(i).err = "nil"

\* the fields before k let the call through: a field without rules, or, on
\* a context without errors, a field whose rules are all satisfied
PassedBefore(k) ==
    \A i \in 1..(k - 1) :
        \/ Compiled(i).vfs = <<>>
        \/ /\ arg.entry.Errors = <<>>
           /\ \A j \in 1..Len(Compiled(i).vfs) :
                 RuleSatisfied(Compiled(i).vfs[j], obj.fields[i].Value)

\* the compilation of the annotation ended in an error value
ReturnedError(g) == g.err \notin {"nil", "panic: slice bounds out of range"}

\* C11: when a clause of field k fails to compile, Valid returns that compile
\* error, dispatches no rule of field k, the extracted Match rule and the
\* clauses compiled before the failing one included, inspects no field after
\* k and leaves Errors and ErrorMap as they were after the fields before k.
C11_CompileErrorAborts ==
    ValidOnStruct =>
        \A k \in 1..Len(obj.fields) :
            (FirstNotCompiled(k) /\ PassedBefore(k)) =>
                /\ ReturnedError(Compiled(k)) =>
                      ret = Outcome("compile", <<>>, Compiled(k).err)
                /\ \A t \in 1..Len(trace) : trace[t].field < k
                /\ v = arg.entry

\* C11 witness: the rules of the first field were dispatched and passed, the
\* second field has a Match rule and then an unknown rule name
C11_Witness ==
    /\ FreshValid
    /\ Len(obj.fields) = 2
    /\ obj.fields[2].decl = <<cMatch(<<"a">>), cFoo>>
    /\ ret.kind = "compile"
    /\ ret.err = Compiled(2).err
    /\ Len(trace) = 2
    /\ v = arg.entry

\* C12 as stated: every Valid call ends by returning nil or an error value
\* and never by an uncaught fault, whatever the input and the annotations; an
\* input that is no struct and no pointer to one returns the input-type
\* error before any field is inspected and leaves the context unchanged.
C12_NoUncaughtFault ==
    op = "Valid" =>
        /\ ret.kind \in {"nil", "input", "compile", "call", "validation"}
        /\ (~isStruct(obj) /\ ~isStructPtr(obj)) =>
              /\ ret.kind = "input"
              /\ trace = <<>>
              /\ v = arg.entry

====
